---- MODULE Spec2Model ----
(***************************************************************************)
(* A model of ic-captcha: the CaptchaBuilder setters, the seed stream Rnd, *)
(* the generate pipeline of CaptchaBuilder::generate and Captcha's         *)
(* accessors.                                                              *)
(*                                                                         *)
(* Representation.  A u8 is a number 0..255.  A u32 that may exceed the    *)
(* range of TLC's integers (a raw draw, a bucket size) is a pair   *)
(* <<hi, lo>> of 16-bit limbs; a u32/i32 that the code uses as a           *)
(* coordinate or an index is a plain integer.  A String is its sequence of *)
(* UTF-8 bytes, a Vec<char> a sequence of code points.  SHA3-256 is an     *)
(* external primitive: it is stood in for by a fixed deterministic mixing  *)
(* function from byte strings to 32 bytes.  The image is the background    *)
(* plus the list of drawing calls made on it, each with its arguments.     *)
(***************************************************************************)
EXTENDS Integers, Sequences, FiniteSets, TLC

VARIABLES
    builder,    \* the CaptchaBuilder (lib.rs:29-36)
    lastCall,   \* the last builder setter called and its argument
    pc,         \* position of the running generate call
    seedArg,    \* generate's seed argument
    textArg,    \* generate's text argument: None or Some(bytes)
    rnd,        \* the call's Rnd (lib.rs:134-137)
    nums,       \* bucket sizes passed to rnd_32 since the stream was created
    lastDraw,   \* what the last rnd_32 call read and returned
    rehashes,   \* how often rnd_32 replaced the seed by its hash
    panicked,   \* the call aborted (remainder by zero)
    captcha,    \* the Captcha under construction / returned (captcha.rs:44-48)
    stages,     \* the stages the call has run, with the draws each made
    encoded,    \* the value returned by the last to_base64
    saved       \* one earlier finished call, remembered for comparison

vars == <<builder, lastCall, pc, seedArg, textArg, rnd, nums, lastDraw,
          rehashes, panicked, captcha, stages, encoded, saved>>

----------------------------------------------------------------------------
(* Bounds of the model *)

NumSeeds == 2
MaxDraws == 18
MaxLengthArg == 1
MaxModeArg == 2
MaxFont == 2

(* Option<T> *)
None == <<>>
Some(x) == <<x>>
IsSome(o) == Len(o) = 1
Unwrap(o) == o[1]

----------------------------------------------------------------------------
(* u32 values as limb pairs *)

Limb == 256 * 256
U32(n) == <<n \div Limb, n % Limb>>
U32_MAX == <<Limb - 1, Limb - 1>>
U32Zero == <<0, 0>>

\* i32 -> u32 (`as u32`): two's complement for negative values
AsU32(i) ==
    IF i >= 0 THEN U32(i)
    ELSE <<(Limb - 1) - ((-i - 1) \div Limb), (Limb - 1) - ((-i - 1) % Limb)>>

\* u32 -> i32 / usize (`as i32`, `as usize`)
AsI32(p) ==
    IF p[1] < Limb \div 2 THEN p[1] * Limb + p[2]
    ELSE -(((Limb - 1) - p[1]) * Limb + ((Limb - 1) - p[2]) + 1)

LessU32(a, b) == a[1] < b[1] \/ (a[1] = b[1] /\ a[2] < b[2])

SubU32(a, b) ==
    IF a[2] >= b[2] THEN <<a[1] - b[1], a[2] - b[2]>>
    ELSE <<a[1] - b[1] - 1, a[2] + Limb - b[2]>>

RECURSIVE RemBig(_, _)
RemBig(a, n) == IF LessU32(a, n) THEN a ELSE RemBig(SubU32(a, n), n)

\* a % n on u32, n > 0
RemU32(a, n) ==
    IF n[1] < 128
    THEN LET m  == n[1] * Limb + n[2]
             r0 == (a[1] \div 256) % m
             r1 == (r0 * 256 + (a[1] % 256)) % m
             r2 == (r1 * 256 + (a[2] \div 256)) % m
             r3 == (r2 * 256 + (a[2] % 256)) % m
         IN U32(r3)
    ELSE RemBig(a, n)

\* u32::from_le_bytes
FromLeBytes(d) == <<d[4] * 256 + d[3], d[2] * 256 + d[1]>>

----------------------------------------------------------------------------
(* The seed stream *)

SeedLen == 32

RECURSIVE Absorb(_, _)
Absorb(h, bytes) ==
    IF bytes = <<>> THEN h
    ELSE Absorb((h * 131 + Head(bytes) + 1) % 65521, Tail(bytes))

RECURSIVE Squeeze(_, _)
Squeeze(x, n) ==
    IF n = 0 THEN <<>>
    ELSE LET y == (x * 75 + 74) % 65537
         IN <<(y \div 16) % 256>> \o Squeeze(y, n - 1)

\* stands in for Sha3_256::new().update(seed).finalize()
Digest(bytes) == Squeeze(Absorb(5381 + Len(bytes), bytes), SeedLen)

next_seed(seed) == Digest(seed)

\* a stream that keeps the cursor of the stream before it
RndNewKeepOffset(seed) == [offset |-> rnd.offset, seed |-> next_seed(seed)]

RndNew(seed) == [offset |-> 0, seed |-> next_seed(seed)]

\* rnd_32 that resets the cursor without hashing the seed
rnd_32NoRehash(r, num) ==
    LET d    == SubSeq(r.seed, r.offset + 1, r.offset + 4)
        off  == r.offset + 4
        wrap == off >= 32
    IN [rnd |-> [offset |-> IF wrap THEN 0 ELSE off, seed |-> r.seed],
        raw |-> FromLeBytes(d),
        rehashed |-> FALSE,
        panic |-> num = U32Zero,
        val |-> IF num = U32Zero THEN U32Zero ELSE RemU32(FromLeBytes(d), num)]

\* rnd_32 that wraps only once the cursor has passed 32
rnd_32LateWrap(r, num) ==
    LET d    == SubSeq(r.seed, r.offset + 1, r.offset + 4)
        off  == r.offset + 4
        wrap == off > 32
    IN [rnd |-> IF wrap THEN [offset |-> 0, seed |-> next_seed(r.seed)]
                ELSE [offset |-> off, seed |-> r.seed],
        raw |-> FromLeBytes(d),
        rehashed |-> wrap,
        panic |-> num = U32Zero,
        val |-> IF num = U32Zero THEN U32Zero ELSE RemU32(FromLeBytes(d), num)]

\* rnd_32: the new stream, the word read, and the value returned; the
\* remainder by num = 0 panics
rnd_32(r, num) ==
    LET d    == SubSeq(r.seed, r.offset + 1, r.offset + 4)
        off  == r.offset + 4
        wrap == off >= 32
    IN [rnd |-> IF wrap THEN [offset |-> 0, seed |-> next_seed(r.seed)]
                ELSE [offset |-> off, seed |-> r.seed],
        raw |-> FromLeBytes(d),
        rehashed |-> wrap,
        panic |-> num = U32Zero,
        val |-> IF num = U32Zero THEN U32Zero ELSE RemU32(FromLeBytes(d), num)]

Seeds == {<<i, 32>> : i \in 0..(NumSeeds - 1)}

----------------------------------------------------------------------------
(* Strings and characters *)

\* str::chars(): UTF-8 bytes to code points (one- and two-byte forms)
RECURSIVE Chars(_)
Chars(bytes) ==
    IF bytes = <<>> THEN <<>>
    ELSE IF bytes[1] < 128
         THEN <<bytes[1]>> \o Chars(Tail(bytes))
         ELSE <<(bytes[1] - 192) * 64 + (bytes[2] - 128)>> \o Chars(Tail(Tail(bytes)))

\* char::to_string(): one code point to UTF-8 bytes
CharToString(c) ==
    IF c < 128 THEN <<c>> ELSE <<192 + (c \div 64), 128 + (c % 64)>>

\* Iterator<char>::collect::<String>()
RECURSIVE CollectString(_)
CollectString(chars) ==
    IF chars = <<>> THEN <<>>
    ELSE CharToString(Head(chars)) \o CollectString(Tail(chars))

BASIC_CHAR ==
    <<50, 51, 52, 53, 54, 55, 56, 57, 65, 66, 67, 68, 69, 70, 71, 72, 74, 75, 77,
      78, 80, 81, 82, 83, 84, 85, 86, 87, 88, 89, 90, 97, 98, 99, 100, 101, 102, 103,
      104, 106, 107, 109, 110, 112, 113, 114, 115, 116, 117, 118, 119, 120, 121, 122>>

LIGHT_BASIC_COLOR ==
    <<<<0, 140, 8>>, <<5, 50, 250>>, <<18, 18, 18>>, <<180, 120, 60>>, <<224, 44, 24>>>>
DARK_BASIC_COLOR ==
    <<<<248, 248, 248>>, <<255, 255, 0>>, <<255, 0, 255>>, <<0, 255, 255>>, <<0, 255, 0>>>>

LIGHT == <<248, 248, 248>>
DARK == <<18, 18, 18>>

SCALE_SM == [x |-> 38, y |-> 35]
SCALE_MD == [x |-> 45, y |-> 42]
SCALE_LG == [x |-> 53, y |-> 50]

----------------------------------------------------------------------------
(* The drawing stages.  Each takes the closure's state g = [rnd, nums,     *)
(* panicked] and returns the new one with its result.                      *)

\* the closure |num| rnd.rnd_32(num); nothing runs after a panic
get_rnd_32(g, num) ==
    IF g.panicked THEN [g |-> g, val |-> U32Zero]
    ELSE LET d == rnd_32(g.rnd, num)
         IN [g |-> [rnd |-> d.rnd, nums |-> Append(g.nums, num), panicked |-> d.panic],
             val |-> d.val]

\* rnd_between without the min >= max guard
rnd_betweenUnguarded(g, min, max) ==
    LET d == get_rnd_32(g, AsU32(max - min))
    IN [g |-> d.g, val |-> min + AsI32(d.val)]

rnd_between(g, min, max) ==
    IF min >= max THEN [g |-> g, val |-> min]
    ELSE LET d == get_rnd_32(g, AsU32(max - min))
         IN [g |-> d.g, val |-> min + AsI32(d.val)]

get_color(g, mode) ==
    IF mode = 0 THEN [g |-> g, val |-> DARK]
    ELSE IF mode = 1
         THEN LET d == get_rnd_32(g, U32(Len(LIGHT_BASIC_COLOR)))
              IN [g |-> d.g, val |-> LIGHT_BASIC_COLOR[AsI32(d.val) + 1]]
         ELSE LET d == get_rnd_32(g, U32(Len(DARK_BASIC_COLOR)))
              IN [g |-> d.g, val |-> DARK_BASIC_COLOR[AsI32(d.val) + 1]]

\* ImageBuffer::from_fn: every pixel is the background colour
ImageFromFn(width, height, mode) ==
    [width |-> width, height |-> height,
     background |-> IF mode > 1 THEN DARK ELSE LIGHT,
     ops |-> <<>>]

CaptchaNew(text, width, height, mode) ==
    [chars |-> Chars(text),
     image |-> ImageFromFn(width, height, mode),
     mode |-> mode]

\* the sampled characters in reverse draw order
RECURSIVE PushCharsReversed(_, _, _)
PushCharsReversed(g, chars, left) ==
    IF left = 0 THEN [g |-> g, val |-> chars]
    ELSE LET d == get_rnd_32(g, U32(Len(BASIC_CHAR)))
         IN PushCharsReversed(d.g, <<BASIC_CHAR[AsI32(d.val) + 1]>> \o chars, left - 1)

RECURSIVE PushChars(_, _, _)
PushChars(g, chars, left) ==
    IF left = 0 THEN [g |-> g, val |-> chars]
    ELSE LET d == get_rnd_32(g, U32(Len(BASIC_CHAR)))
         IN PushChars(d.g, Append(chars, BASIC_CHAR[AsI32(d.val) + 1]), left - 1)

CaptchaRandom(g, num, width, height, mode) ==
    LET d    == PushChars(g, <<>>, num)
        text == CollectString(d.val)
    IN [g |-> d.g, val |-> CaptchaNew(text, width, height, mode)]

\* imageproc's text_size(scale, font, text): the glyph metrics are the
\* font's; a font is stood in for by its size factor
text_size(scale, font, text) ==
    LET c == Chars(text)[1]
    IN <<(scale.x * font) \div 3, (scale.y * font) \div 2 + (c % 3)>>

ScaleFor(len) ==
    IF len >= 1 /\ len <= 4 THEN SCALE_LG
    ELSE IF len >= 5 /\ len <= 6 THEN SCALE_MD
    ELSE SCALE_SM

\* the jitter range without the glyph height taken off
GlyphYNoHeight(g, h, ch) == rnd_between(g, 0 - (ch \div 8), h + (ch \div 8))

GlyphY(g, h, ch) == rnd_between(g, 0 - (ch \div 8), h + (ch \div 8) - ch)

RECURSIVE DrawEachChar(_, _, _, _, _)
DrawEachChar(g, c, i, x, font) ==
    IF i >= Len(c.chars) THEN [g |-> g, val |-> c]
    ELSE LET scale == ScaleFor(Len(c.chars))
             s     == CharToString(c.chars[i + 1])
             ch    == text_size(scale, font, s)[2]
             col   == get_color(g, c.mode)
             y     == GlyphY(col.g, c.image.height, ch)
             op    == <<"text", col.val, 5 + (i * x), y.val, scale, s>>
         IN DrawEachChar(y.g, [c EXCEPT !.image.ops = Append(@, op)], i + 1, x, font)

draw_characters(g, c, font) ==
    LET x == (c.image.width - 10) \div Len(c.chars)
    IN DrawEachChar(g, c, 0, x, font)

draw_interference_line(g, c) ==
    LET width   == c.image.width
        height  == c.image.height
        x1      == 5
        y1      == rnd_between(g, -5, height)
        x2      == width - 5
        y2      == rnd_between(y1.g, -5, height + 5)
        span    == width \div 10
        ctrl_x  == rnd_between(y2.g, span, width \div 2)
        ctrl_y  == rnd_between(ctrl_x.g, 0, height)
        ctrl_x2 == rnd_between(ctrl_y.g, (width \div 2) + span, width - span)
        ctrl_y2 == rnd_between(ctrl_x2.g, 0, height)
        color   == get_color(ctrl_y2.g, c.mode)
        op1     == <<"bezier", <<x1, y1.val>>, <<x2, y2.val>>,
                     <<ctrl_x.val, ctrl_y.val>>, <<ctrl_x2.val, ctrl_y2.val>>, color.val>>
        op2     == <<"bezier", <<x1, y1.val + 2>>, <<x2, y2.val + 2>>,
                     <<ctrl_x.val, ctrl_y.val + 2>>, <<ctrl_x2.val, ctrl_y2.val + 2>>,
                     color.val>>
    IN [g |-> color.g, val |-> [c EXCEPT !.image.ops = @ \o <<op1, op2>>]]

draw_interference_ellipse(g, c) ==
    LET w     == rnd_between(g, 5, c.image.height \div 3)
        x     == rnd_between(w.g, 5, c.image.width - 5)
        y     == rnd_between(x.g, 5, c.image.height - 5)
        color == get_color(y.g, c.mode)
        op1   == <<"ellipse", <<x.val, y.val>>, w.val * 2, w.val, color.val>>
        op2   == <<"ellipse", <<x.val, y.val>>, w.val * 2 + 2, w.val + 2, color.val>>
    IN [g |-> color.g, val |-> [c EXCEPT !.image.ops = @ \o <<op1, op2>>]]

\* the salt-and-pepper rate 0.002 * complexity - 0.002 is kept in thousandths
draw_interference_noise(g, c, complexity) ==
    IF complexity > 1
    THEN LET s1  == get_rnd_32(g, U32_MAX)
             op1 == <<"gaussian_noise", complexity - 1, 4 * complexity, s1.val>>
             s2  == get_rnd_32(s1.g, U32_MAX)
             op2 == <<"salt_and_pepper_noise", 2 * complexity - 2, s2.val>>
         IN [g |-> s2.g, val |-> [c EXCEPT !.image.ops = @ \o <<op1, op2>>]]
    ELSE [g |-> g, val |-> c]

\* Captcha::text
Text(c) == CollectString(c.chars)

\* a clamp to the nearest end of 10..80
CompressionNearest(compression) ==
    IF compression > 80 THEN 80
    ELSE IF compression < 10 THEN 10
    ELSE compression

Compression(compression) ==
    IF compression > 80 THEN 80
    ELSE IF compression < 10 THEN 30
    ELSE compression

\* Captcha::to_base64: the JPEG encoder and the base64 encoder are external;
\* the payload is kept as the pair they are applied to
to_base64(c, compression) ==
    [prefix |-> "data:image/jpeg;base64,",
     payload |-> <<"Jpeg", Compression(compression), c.image>>]


----------------------------------------------------------------------------
(* The builder *)

FONTS == 1

BuilderNew ==
    [length |-> 4, fonts |-> FONTS, width |-> 140, height |-> 40, mode |-> 1,
     complexity |-> 4]

BuilderLength(b, length) ==
    [b EXCEPT !.length = IF length > 0 THEN length ELSE 4]

BuilderFonts(b, fonts) == [b EXCEPT !.fonts = fonts]

BuilderWidth(b, width) ==
    [b EXCEPT !.width = IF width > 60 THEN width ELSE 140]

\* a height setter that ignores an invalid height
BuilderHeightKeep(b, height) ==
    IF height > 20 THEN [b EXCEPT !.height = height] ELSE b

BuilderHeight(b, height) ==
    [b EXCEPT !.height = IF height > 20 THEN height ELSE 40]

BuilderMode(b, mode) == [b EXCEPT !.mode = mode]

BuilderComplexity(b, complexity) ==
    [b EXCEPT !.complexity =
        IF complexity > 10 THEN 10
        ELSE IF complexity < 1 THEN 1
        ELSE complexity]

----------------------------------------------------------------------------
(* generate, stage by stage *)

\* generate with a single interference line
AfterOneLine(p) ==
    CASE p = "rnd"         -> "text"
      [] p = "text"        -> "characters"
      [] p = "characters"  -> "line1"
      [] p = "line1"       -> "ellipse1"
      [] p = "line2"       -> "ellipse1"
      [] p = "ellipse1"    -> "ellipse2"
      [] p = "ellipse2"    -> "ellipse3"
      [] p = "ellipse3"    -> "noise"
      [] p = "noise"       -> "done"

\* the statement that follows each statement of generate's body
After(p) ==
    CASE p = "rnd"         -> "text"
      [] p = "text"        -> "characters"
      [] p = "characters"  -> "line1"
      [] p = "line1"       -> "line2"
      [] p = "line2"       -> "ellipse1"
      [] p = "ellipse1"    -> "ellipse2"
      [] p = "ellipse2"    -> "ellipse3"
      [] p = "ellipse3"    -> "noise"
      [] p = "noise"       -> "done"

\* an explicit text cut to the configured length
ResolveCaptchaCut(g, b, text) ==
    IF IsSome(text)
    THEN LET cs == Chars(Unwrap(text))
             n  == IF Len(cs) < b.length THEN Len(cs) ELSE b.length
         IN [g |-> g,
             val |-> CaptchaNew(CollectString(SubSeq(cs, 1, n)), b.width, b.height, b.mode)]
    ELSE CaptchaRandom(g, b.length, b.width, b.height, b.mode)

\* match text { Some(text) => Captcha::new(..), None => Captcha::random(..) }
ResolveCaptcha(g, b, text) ==
    IF IsSome(text)
    THEN [g |-> g, val |-> CaptchaNew(Unwrap(text), b.width, b.height, b.mode)]
    ELSE CaptchaRandom(g, b.length, b.width, b.height, b.mode)

G == [rnd |-> rnd, nums |-> nums, panicked |-> panicked]

\* a stage has run: its result becomes the state, and the call moves on
Ran(stage, d) ==
    /\ rnd' = d.g.rnd
    /\ nums' = d.g.nums
    /\ panicked' = d.g.panicked
    /\ captcha' = Some(d.val)
    /\ stages' = Append(stages, [stage |-> stage, from |-> Len(nums), to |-> Len(d.g.nums)])
    /\ pc' = IF d.g.panicked THEN "panicked" ELSE After(pc)
    /\ UNCHANGED <<builder, lastCall, seedArg, textArg, lastDraw, rehashes, encoded>>

Generate(seed, text) ==
    /\ pc \in {"idle", "done", "panicked"}
    /\ seedArg' = seed
    /\ textArg' = text
    /\ rnd' = RndNew(seed)
    /\ nums' = <<>>
    /\ panicked' = FALSE
    /\ captcha' = None
    /\ encoded' = None
    /\ stages' = <<[stage |-> "rnd", from |-> 0, to |-> 0]>>
    /\ pc' = After("rnd")
    /\ saved' = IF saved = None THEN None ELSE Some([Unwrap(saved) EXCEPT !.earlier = TRUE])
    /\ UNCHANGED <<builder, lastCall, lastDraw, rehashes>>

ResolveText ==
    /\ pc = "text"
    /\ Ran(IF IsSome(textArg) THEN "new" ELSE "random",
           ResolveCaptcha(G, builder, textArg))
    /\ UNCHANGED saved

WriteCharacters ==
    /\ pc = "characters"
    /\ Ran("characters", draw_characters(G, Unwrap(captcha), builder.fonts))
    /\ UNCHANGED saved

InterferenceLine ==
    /\ pc \in {"line1", "line2"}
    /\ Ran("line", draw_interference_line(G, Unwrap(captcha)))
    /\ UNCHANGED saved

InterferenceEllipse ==
    /\ pc \in {"ellipse1", "ellipse2", "ellipse3"}
    /\ Ran("ellipse", draw_interference_ellipse(G, Unwrap(captcha)))
    /\ UNCHANGED saved

\* the last statement; the returned captcha of a call without text may be
\* remembered for a later comparison
InterferenceNoise ==
    /\ pc = "noise"
    /\ Ran("noise", draw_interference_noise(G, Unwrap(captcha), builder.complexity))
    /\ \/ UNCHANGED saved
       \/ /\ textArg = None
          /\ pc' = "done"
          /\ saved' = Some([seed |-> seedArg, captcha |-> Unwrap(captcha'),
                            earlier |-> FALSE])

ToBase64(compression) ==
    /\ pc = "done"
    /\ encoded' = Some([compression |-> compression,
                        string |-> to_base64(Unwrap(captcha), compression)])
    /\ UNCHANGED <<builder, lastCall, pc, seedArg, textArg, rnd, nums, lastDraw,
                   rehashes, panicked, captcha, stages, saved>>

----------------------------------------------------------------------------
(* Inputs *)

LengthArgs == (0..MaxLengthArg) \cup {9}
ModeArgs == 0..MaxModeArg
Fonts == 1..MaxFont
WidthArgs == {60, 61}
HeightArgs == {20, 21}
ComplexityArgs == {0, 11}

\* "LD", "é", "LDCLabs"
Texts == {<<76, 68>>, <<195, 169>>, <<76, 68, 67, 76, 97, 98, 115>>}
TextArgs == {None} \cup {Some(t) : t \in Texts}

Qualities == {0, 200}

\* builders made by one chain of setter calls on CaptchaBuilder::new()
Builders ==
    {BuilderComplexity(BuilderMode(BuilderHeight(BuilderWidth(BuilderLength(
        BuilderFonts(BuilderNew, f), l), w), h), m), c) :
        f \in Fonts, l \in LengthArgs, w \in WidthArgs, h \in HeightArgs,
        m \in ModeArgs, c \in ComplexityArgs}

Idle ==
    /\ lastCall = None
    /\ pc = "idle"
    /\ seedArg = <<>>
    /\ textArg = None
    /\ rnd = [offset |-> 0, seed |-> <<>>]
    /\ nums = <<>>
    /\ lastDraw = None
    /\ rehashes = 0
    /\ panicked = FALSE
    /\ captcha = None
    /\ stages = <<>>
    /\ encoded = None
    /\ saved = None

Init ==
    /\ builder \in Builders
    /\ Idle

Next ==
    \/ \E seed \in Seeds, text \in TextArgs : Generate(seed, text)
    \/ ResolveText
    \/ WriteCharacters
    \/ InterferenceLine
    \/ InterferenceEllipse
    \/ InterferenceNoise
    \/ \E q \in Qualities : ToBase64(q)

Spec == Init /\ [][Next]_vars


----------------------------------------------------------------------------
(* The builder alone: any sequence of setter calls on CaptchaBuilder::new() *)

BuilderLengthArgs == {0, 1, 4, 255}
BuilderWidthArgs == {0, 60, 61, 140, 1000}
BuilderHeightArgs == {0, 20, 21, 40, 1000}
BuilderModeArgs == {0, 1, 2, 255}
BuilderComplexityArgs == (0..12) \cup {99}

Called(op, arg) ==
    /\ lastCall' = Some([op |-> op, arg |-> arg, before |-> builder])
    /\ UNCHANGED <<pc, seedArg, textArg, rnd, nums, lastDraw, rehashes, panicked,
                   captcha, stages, encoded, saved>>

Length(v) ==
    /\ builder' = BuilderLength(builder, v)
    /\ Called("length", v)

SetFonts(v) ==
    /\ builder' = BuilderFonts(builder, v)
    /\ Called("fonts", v)

Width(v) ==
    /\ builder' = BuilderWidth(builder, v)
    /\ Called("width", v)

Height(v) ==
    /\ builder' = BuilderHeight(builder, v)
    /\ Called("height", v)

Mode(v) ==
    /\ builder' = BuilderMode(builder, v)
    /\ Called("mode", v)

Complexity(v) ==
    /\ builder' = BuilderComplexity(builder, v)
    /\ Called("complexity", v)

InitBuilder ==
    /\ builder = BuilderNew
    /\ Idle

NextBuilder ==
    \/ \E v \in BuilderLengthArgs : Length(v)
    \/ \E v \in Fonts : SetFonts(v)
    \/ \E v \in BuilderWidthArgs : Width(v)
    \/ \E v \in BuilderHeightArgs : Height(v)
    \/ \E v \in BuilderModeArgs : Mode(v)
    \/ \E v \in BuilderComplexityArgs : Complexity(v)

SpecBuilder == InitBuilder /\ [][NextBuilder]_vars

----------------------------------------------------------------------------
(* The seed stream alone: Rnd::new and any sequence of rnd_32 calls *)

RndNums == {U32(1), U32(2), U32(5), U32(54), U32(140), U32_MAX}

RndCreate(seed) ==
    /\ seedArg' = seed
    /\ rnd' = RndNew(seed)
    /\ lastDraw' = None
    /\ rehashes' = 0
    /\ UNCHANGED <<builder, lastCall, pc, textArg, nums, panicked, captcha, stages,
                   encoded, saved>>

Drawn == IF lastDraw = None THEN 0 ELSE Unwrap(lastDraw).index

RndDraw(num) ==
    /\ Drawn < MaxDraws
    /\ LET d == rnd_32(rnd, num)
       IN /\ rnd' = d.rnd
          /\ lastDraw' = Some([index |-> Drawn + 1, num |-> num, raw |-> d.raw,
                               val |-> d.val])
          /\ rehashes' = IF d.rehashed THEN rehashes + 1 ELSE rehashes
    /\ UNCHANGED <<builder, lastCall, pc, seedArg, textArg, nums, panicked, captcha,
                   stages, encoded, saved>>

InitRnd ==
    /\ builder = BuilderNew
    /\ lastCall = None
    /\ pc = "idle"
    /\ seedArg \in Seeds
    /\ textArg = None
    /\ rnd = RndNew(seedArg)
    /\ nums = <<>>
    /\ lastDraw = None
    /\ rehashes = 0
    /\ panicked = FALSE
    /\ captcha = None
    /\ stages = <<>>
    /\ encoded = None
    /\ saved = None

NextRnd ==
    \/ \E seed \in Seeds : RndCreate(seed)
    \/ \E num \in RndNums : RndDraw(num)

SpecRnd == InitRnd /\ [][NextRnd]_vars

----------------------------------------------------------------------------
(* The default builder, every compression level *)

U8 == 0..255

NextEncode ==
    \/ \E seed \in Seeds : Generate(seed, None)
    \/ ResolveText
    \/ WriteCharacters
    \/ InterferenceLine
    \/ InterferenceEllipse
    \/ InterferenceNoise
    \/ \E q \in U8 : ToBase64(q)

SpecEncode == InitBuilder /\ [][NextEncode]_vars


----------------------------------------------------------------------------
(* Properties *)

\* Hash applied k times to the seed bytes
RECURSIVE HashIter(_, _)
HashIter(seed, k) == IF k = 0 THEN seed ELSE next_seed(HashIter(seed, k - 1))

\* the little-endian word at a byte offset of a buffer
WordAt(buf, off) ==
    <<buf[off + 4] * 256 + buf[off + 3], buf[off + 2] * 256 + buf[off + 1]>>

\* the raw value of draw number i (from 1) of a stream created from seed
DrawRaw(seed, i) == WordAt(HashIter(seed, ((i - 1) \div 8) + 1), 4 * ((i - 1) % 8))

Returned == pc = "done" /\ captcha # None

\* C1: a call generate(s, None) returns the text and the image that an
\* earlier call generate(s, None) on the same builder returned, whatever
\* calls were made in between, and to_base64 at one quality gives the same
\* string for both.
C1_Determinism ==
    (/\ Returned
     /\ textArg = None
     /\ saved # None
     /\ Unwrap(saved).earlier
     /\ Unwrap(saved).seed = seedArg)
    => LET old == Unwrap(saved).captcha
           new == Unwrap(captcha)
       IN /\ Text(new) = Text(old)
          /\ new.image = old.image
          /\ encoded # None =>
                Unwrap(encoded).string = to_base64(old, Unwrap(encoded).compression)

C1_Witness ==
    /\ Returned
    /\ textArg = None
    /\ saved # None
    /\ Unwrap(saved).earlier
    /\ Unwrap(saved).seed = seedArg
    /\ encoded # None
    /\ Len(nums) > 8

\* C2: with an explicit text t the returned text is t, whatever the
\* configured length; resolving the text draws nothing from the stream.
C2_ExplicitText ==
    (IsSome(textArg) /\ captcha # None)
    => /\ Text(Unwrap(captcha)) = Unwrap(textArg)
       /\ stages[2] = [stage |-> "new", from |-> 0, to |-> 0]
       /\ \A i \in 1..Len(stages) : stages[i].stage # "random"

C2_Witness ==
    /\ Returned
    /\ textArg = Some(<<195, 169>>)
    /\ builder.length = 9
    /\ Text(Unwrap(captcha)) = <<195, 169>>

\* C3: the builder always has length >= 1, width > 60, height > 20 and
\* complexity in 1..10; an invalid length, width or height sets the default
\* 4, 140 or 40, a complexity is clamped into 1..10, and a valid argument is
\* stored unchanged.
C3_ConfigClamps ==
    /\ builder.length >= 1
    /\ builder.width > 60
    /\ builder.height > 20
    /\ builder.complexity >= 1 /\ builder.complexity <= 10
    /\ lastCall # None =>
         LET op  == Unwrap(lastCall).op
             arg == Unwrap(lastCall).arg
         IN /\ op = "length" => builder.length = (IF arg = 0 THEN 4 ELSE arg)
            /\ op = "width" => builder.width = (IF arg <= 60 THEN 140 ELSE arg)
            /\ op = "height" => builder.height = (IF arg <= 20 THEN 40 ELSE arg)
            /\ op = "complexity" =>
                 builder.complexity = (IF arg = 0 THEN 1 ELSE IF arg > 10 THEN 10 ELSE arg)

C3_Witness ==
    /\ lastCall # None
    /\ Unwrap(lastCall).op = "height"
    /\ Unwrap(lastCall).arg = 20
    /\ Unwrap(lastCall).before.height = 1000
    /\ builder.height = 40
    /\ builder.complexity = 10

\* C4: to_base64(q) encodes with quality 80 when q > 80, 30 when q < 10 and
\* q otherwise, so always with a quality in 10..80, and the string starts
\* with "data:image/jpeg;base64,".
C4_QualityClamp ==
    encoded # None =>
        LET q   == Unwrap(encoded).compression
            str == Unwrap(encoded).string
            eff == str.payload[2]
        IN /\ str.prefix = "data:image/jpeg;base64,"
           /\ str.payload[1] = "Jpeg"
           /\ str.payload[3] = Unwrap(captcha).image
           /\ eff >= 10 /\ eff <= 80
           /\ q > 80 => eff = 80
           /\ q < 10 => eff = 30
           /\ (q >= 10 /\ q <= 80) => eff = q

C4_Witness ==
    /\ encoded # None
    /\ Unwrap(encoded).compression = 0
    /\ Unwrap(encoded).string.payload[2] = 30

\* C5: without an explicit text the returned text has exactly the
\* configured number n of characters, character i being BASIC_CHAR at index
\* (raw value of draw i of the fresh stream) mod 54; these are the first n
\* draws of the call.
C5_Sampling ==
    (textArg = None /\ captcha # None)
    => LET c == Unwrap(captcha)
           n == builder.length
       IN /\ Len(c.chars) = n
          /\ Len(Chars(Text(c))) = n
          /\ stages[2] = [stage |-> "random", from |-> 0, to |-> n]
          /\ \A i \in 1..n :
                /\ nums[i] = U32(54)
                /\ c.chars[i] = BASIC_CHAR[AsI32(RemU32(DrawRaw(seedArg, i), U32(54))) + 1]
                /\ \E j \in 1..54 : c.chars[i] = BASIC_CHAR[j]

C5_Witness ==
    /\ Returned
    /\ textArg = None
    /\ builder.length = 9
    /\ Len(Unwrap(captcha).chars) = 9

\* C6: draw number 8k+j+1 (0 <= j < 8) of a stream created from seed s
\* reads the word at offset 4j of Hash applied k+1 times to s, and the
\* state has been replaced by its hash once per 8 draws.
C6_Exhaustion ==
    /\ rehashes = Drawn \div 8
    /\ rnd.seed = HashIter(seedArg, (Drawn \div 8) + 1)
    /\ rnd.offset = 4 * (Drawn % 8)
    /\ lastDraw # None => Unwrap(lastDraw).raw = DrawRaw(seedArg, Drawn)

C6_Witness ==
    /\ Drawn = 9
    /\ rehashes = 1
    /\ Unwrap(lastDraw).raw = WordAt(next_seed(next_seed(seedArg)), 0)
    /\ Unwrap(lastDraw).raw # WordAt(next_seed(seedArg), 0)

\* C7: the cursor is always one of 0, 4, ..., 28, so the read of 4 bytes
\* stays inside the 32-byte buffer, and rnd_32(n) returns a value below n.
C7_Cursor ==
    /\ rnd.offset \in {4 * j : j \in 0..7}
    /\ rnd.offset + 4 <= Len(rnd.seed)
    /\ Len(rnd.seed) = 32
    /\ lastDraw # None => LessU32(Unwrap(lastDraw).val, Unwrap(lastDraw).num)

C7_Witness ==
    /\ lastDraw # None
    /\ Drawn = 8
    /\ rnd.offset = 0
    /\ Unwrap(lastDraw).num = U32_MAX

StageOrder ==
    <<"rnd", IF IsSome(textArg) THEN "new" ELSE "random", "characters", "line", "line",
      "ellipse", "ellipse", "ellipse", "noise">>

\* C8: a call creates one stream and runs text resolution, text rendering,
\* two lines, three ellipses and the noise in this order, each stage
\* drawing from that stream after the previous one has finished.
C8_StageOrder ==
    /\ Len(stages) <= Len(StageOrder)
    /\ \A i \in 1..Len(stages) :
          /\ stages[i].stage = StageOrder[i]
          /\ stages[i].from <= stages[i].to
          /\ i > 1 => stages[i].from = stages[i - 1].to
    /\ stages # <<>> =>
          /\ stages[Len(stages)].to = Len(nums)
          /\ rnd.seed = HashIter(seedArg, (Len(nums) \div 8) + 1)
          /\ rnd.offset = 4 * (Len(nums) % 8)
    /\ Returned => Len(stages) = Len(StageOrder)

C8_Witness ==
    /\ Returned
    /\ IsSome(textArg)
    /\ Len(stages) = 9
    /\ builder.complexity > 1
    /\ stages[9].to = stages[9].from + 2

\* C9: every bucket size passed to rnd_32 during generate is positive:
\* 54, 5, u32::MAX, or a positive max - min from rnd_between.
C9_Buckets ==
    /\ ~panicked
    /\ pc # "panicked"
    /\ \A i \in 1..Len(nums) :
          /\ nums[i] # U32Zero
          /\ \/ nums[i] \in {U32(54), U32(5), U32_MAX}
             \/ AsI32(nums[i]) > 0

\* a call in which rnd_between was given min = max for a glyph
C9_Witness ==
    /\ Returned
    /\ builder.mode = 0
    /\ builder.height = 21
    /\ builder.fonts = 1
    /\ textArg = Some(<<76, 68>>)
    /\ stages[3].to = stages[3].from + 1

TextOps == IF captcha = None THEN {}
           ELSE {i \in 1..Len(Unwrap(captcha).image.ops) :
                    Unwrap(captcha).image.ops[i][1] = "text"}

\* the glyph height of text operation i
GlyphHeight(i) ==
    LET op == Unwrap(captcha).image.ops[i]
    IN text_size(op[5], builder.fonts, op[6])[2]

\* C10: every glyph drawn by the text renderer lies vertically inside the
\* canvas: 0 <= y and y + ch <= h.
C10_InsideCanvas ==
    \A i \in TextOps :
        LET y  == Unwrap(captcha).image.ops[i][4]
            ch == GlyphHeight(i)
        IN 0 <= y /\ y + ch <= builder.height

\* C10 (amended): the vertical origin y of a glyph of height ch on a canvas
\* of height h is at least -(ch/8); when h + ch/8 - ch exceeds -(ch/8) the
\* glyph ends at most ch/8 - 1 below the canvas, otherwise y = -(ch/8).
C10_Jitter ==
    \A i \in TextOps :
        LET y  == Unwrap(captcha).image.ops[i][4]
            ch == GlyphHeight(i)
            h  == builder.height
        IN /\ y >= 0 - (ch \div 8)
           /\ IF h + (ch \div 8) - ch > 0 - (ch \div 8)
              THEN y + ch <= h + (ch \div 8) - 1
              ELSE y = 0 - (ch \div 8)

C10_Witness ==
    /\ Returned
    /\ \E i \in TextOps :
          /\ Unwrap(captcha).image.ops[i][4] < 0
          /\ builder.height + (GlyphHeight(i) \div 8) - GlyphHeight(i) > 1
    /\ \E i \in TextOps :
          Unwrap(captcha).image.ops[i][4] + GlyphHeight(i) > builder.height


====
